---------------------------- MODULE Spec2Model ----------------------------
(***************************************************************************)
(* NeuroBuilder (src/script.js): the feed-forward network engine, the      *)
(* architecture editor, the dataset loaders, the training driver and the   *)
(* JSON import/export, as one state machine.  Every browser event handler  *)
(* runs to completion, so every handler is one action; the only suspension *)
(* point is the `await` at the end of an epoch in trainLoop.               *)
(*                                                                         *)
(* Numbers.  JavaScript doubles are modelled as fixed-point integers with  *)
(* Scale units per 1.0, plus the three non-numeric values the code can     *)
(* meet in a matrix cell: NaN, null (what JSON.stringify writes for a NaN) *)
(* and undefined (a read past the end of an array).                        *)
(***************************************************************************)
EXTENDS Integers, Sequences, FiniteSets, TLC

(***************************************************************************)
(* Bounds of the model.                                                    *)
(***************************************************************************)
MaxArch == 4          \* addLayer is not offered beyond this many cards
MaxEpochs == 2        \* largest value of the #epochs control
MaxSteps == 3         \* user events per behaviour (clicks on Stop aside)
LinsepRows == 2       \* rows drawn by the "linsep" preset (200 in the code)

(***************************************************************************)
(* Number representation.                                                  *)
(***************************************************************************)
Scale == 1000
NaN == 1000000000
Null == 1000000001
Undef == 1000000002
ThrowMark == 1000000003
NullMark == 1000000004

\* The value of a failed evaluation (a TypeError thrown by a property read
\* of undefined or null), as a matrix so that it can flow through the ops.
Threw == << <<ThrowMark>> >>
\* The JavaScript value null where a matrix is expected (DenseLayer.b).
NullM == << <<NullMark>> >>

IsThrow(m) == m = Threw

\* ToNumber: null -> 0, undefined -> NaN.
ToNum(v) == IF v = Null THEN 0 ELSE IF v = Undef THEN NaN ELSE v

Quot(a, b) == IF a >= 0 THEN a \div b ELSE -((-a) \div b)

Add(a, b) == IF ToNum(a) = NaN \/ ToNum(b) = NaN THEN NaN ELSE ToNum(a) + ToNum(b)
Sub(a, b) == IF ToNum(a) = NaN \/ ToNum(b) = NaN THEN NaN ELSE ToNum(a) - ToNum(b)
Mul(a, b) == IF ToNum(a) = NaN \/ ToNum(b) = NaN THEN NaN
             ELSE Quot(ToNum(a) * ToNum(b), Scale)
\* x / n for a plain count n >= 1 (a row or column count).
DivN(a, n) == IF ToNum(a) = NaN THEN NaN ELSE Quot(ToNum(a), n)

\* const v = ...; the rest of the block reads v.  The value is computed
\* before the block runs, as a statement's is.
With(v, F(_)) == CHOOSE r \in {F(x) : x \in {v}} : TRUE

\* Arrays are built cell by cell, as the code's loops fill them.
Tab(n, F(_)) ==
  LET t[k \in 0..n] == IF k = 0 THEN <<>> ELSE Append(t[k - 1], F(k))
  IN  IF n <= 0 THEN <<>> ELSE t[n]

(***************************************************************************)
(* rng (script.js 5-14): xorshift32 on a 32-bit word, kept as 32 bits,     *)
(* least significant first.  A draw is the integer s % 1000000; the code   *)
(* returns that number divided by 1000000.                                 *)
(***************************************************************************)
Word == 32
Million == 1000000

RECURSIVE ToBits(_, _)
ToBits(n, k) == IF k = 0 THEN <<>> ELSE <<n % 2>> \o ToBits(n \div 2, k - 1)

\* a 32-bit word from its bits
Bits(F(_)) ==
  <<F(1), F(2), F(3), F(4), F(5), F(6), F(7), F(8),
    F(9), F(10), F(11), F(12), F(13), F(14), F(15), F(16),
    F(17), F(18), F(19), F(20), F(21), F(22), F(23), F(24),
    F(25), F(26), F(27), F(28), F(29), F(30), F(31), F(32)>>

Xor(a, b) == Bits(LAMBDA i : (a[i] + b[i]) % 2)
\* s << k and s >>> k on 32 bits
Shl(a, k) == Bits(LAMBDA i : IF i > k THEN a[i - k] ELSE 0)
Shr(a, k) == Bits(LAMBDA i : IF i + k <= Word THEN a[i + k] ELSE 0)

RECURSIVE ModMillion(_, _)
\* (value of bits i..1 of a, most significant first) mod 1000000
ModMillion(a, i) == IF i > Word THEN 0
                    ELSE (ModMillion(a, i + 1) * 2 + a[i]) % Million

rngSeed(seed) == ToBits(seed, Word)
rngStep(s) ==
  With(s, LAMBDA s0 :
  With(Xor(s0, Shl(s0, 13)), LAMBDA s1 :
  With(Xor(s1, Shr(s1, 17)), LAMBDA s2 :
    Xor(s2, Shl(s2, 5)))))
\* the draw made from the state after the step, in millionths
rngDraw(s) == ModMillion(s, 1)

(***************************************************************************)
(* Matrix ops (script.js 29-101).  A matrix is a sequence of rows; rows    *)
(* may be ragged, as JavaScript arrays may.  Reading past the end of a row *)
(* gives undefined; reading a property of a missing row, or of null,       *)
(* throws.                                                                 *)
(***************************************************************************)
At(row, j) == IF j \in 1..Len(row) THEN row[j] ELSE Undef

Mat(r, c, F(_, _)) == Tab(r, LAMBDA i : Tab(c, LAMBDA j : F(i, j)))

zeros(r, c) == Mat(r, c, LAMBDA i, j : 0)

\* The values randn draws from rng(42) (Box-Muller on successive pairs of
\* draws, times 0.1), in row-major order, rounded to the fixed-point grid.
\* Every DenseLayer built by buildNetwork gets a fresh rng(42), so every
\* layer's W starts from the head of this sequence.
RandnSeq == << 143, 104, -17, -76, -19, 266, -84, 124, 45, -104,
               -67, 83, 107, 244, 152, -170, 58, -206, -91, -178 >>

randn(r, c) == Mat(r, c, LAMBDA i, j : At(RandnSeq, (i - 1) * c + j))

\* The draws randn makes (script.js 34-41).  A random source is the cycle of
\* values, in millionths, that its calls return; p is the next call's place.
RECURSIVE TakeNonZero(_, _)
\* while (u === 0) u = rand(): the first non-zero draw from p on
TakeNonZero(src, p) ==
  IF src[p] # 0 THEN [value |-> src[p], next |-> (p % Len(src)) + 1]
  ELSE TakeNonZero(src, (p % Len(src)) + 1)

\* A faulty entry that takes the next two draws as they come.
randnEntryNoRedraw(src, p) ==
  [u |-> src[p], v |-> src[(p % Len(src)) + 1],
   next |-> (((p % Len(src)) + 1) % Len(src)) + 1]

\* One entry: the u and v handed to Math.log and Math.cos
randnEntry(src, p) ==
  With(TakeNonZero(src, p), LAMBDA u :
  With(TakeNonZero(src, u.next), LAMBDA v :
    [u |-> u.value, v |-> v.value, next |-> v.next]))

RECURSIVE randnDraws(_, _, _, _)
\* the n entries of an r x c matrix, row by row: <<[u, v], ...>>
randnDraws(n, src, p, acc) ==
  IF n <= 0 THEN acc
  ELSE With(randnEntry(src, p), LAMBDA e :
         randnDraws(n - 1, src, e.next, Append(acc, [u |-> e.u, v |-> e.v])))

RECURSIVE DotSum(_, _, _, _, _)
\* s = 0; for k < n: s += a_i[k] * b[k][j]
DotSum(ai, b, j, k, s) ==
  IF k > Len(b) THEN s
  ELSE DotSum(ai, b, j, k + 1, Add(s, Mul(At(ai, k), At(b[k], j))))

\* A faulty product with as many columns as b has rows.
dotWidthOfRows(a, b) ==
  IF IsThrow(a) \/ IsThrow(b) \/ b = NullM \/ Len(b) = 0 THEN Threw
  ELSE Mat(Len(a), Len(b), LAMBDA i, j : DotSum(a[i], b, j, 1, 0))

dot(a, b) ==
  IF IsThrow(a) \/ IsThrow(b) \/ b = NullM \/ Len(b) = 0 THEN Threw
  ELSE Mat(Len(a), Len(b[1]), LAMBDA i, j : DotSum(a[i], b, j, 1, 0))

addBias(a, b) ==
  IF IsThrow(a) \/ IsThrow(b) \/ Len(a) = 0 THEN Threw
  ELSE IF Len(a[1]) > 0 /\ (b = NullM \/ Len(b) = 0) THEN Threw
  ELSE Mat(Len(a), Len(a[1]), LAMBDA i, j : Add(At(a[i], j), At(b[1], j)))

(***************************************************************************)
(* Activations (script.js 23-28).  tanh is the piecewise-linear            *)
(* interpolation of Math.tanh through x = 0, 0.5, 1, 2, 4; sigmoid is      *)
(* (1 + tanh(x/2)) / 2, which is the identity the exact functions satisfy. *)
(* The derivatives are the code's polynomials of the output.               *)
(***************************************************************************)
ActivationNames == {"relu", "sigmoid", "tanh", "linear"}

Interp(x, x0, y0, x1, y1) == y0 + Quot((x - x0) * (y1 - y0), x1 - x0)
TanhPos(x) ==
  IF x >= 4 * Scale THEN Scale
  ELSE IF x >= 2 * Scale THEN Interp(x, 2 * Scale, 964, 4 * Scale, 999)
  ELSE IF x >= Scale THEN Interp(x, Scale, 762, 2 * Scale, 964)
  ELSE IF 2 * x >= Scale THEN Interp(2 * x, Scale, 462, 2 * Scale, 762)
  ELSE Interp(2 * x, 0, 0, Scale, 462)
Tanh(x) == IF x >= 0 THEN TanhPos(x) ELSE -TanhPos(-x)

ActF(act, v) ==
  LET x == ToNum(v) IN
  IF x = NaN THEN NaN
  ELSE CASE act = "relu"    -> IF x > 0 THEN x ELSE 0
         [] act = "sigmoid" -> Quot(Scale + Tanh(Quot(x, 2)), 2)
         [] act = "tanh"    -> Tanh(x)
         [] OTHER           -> x
ActDf(act, y) ==
  CASE act = "relu"    -> IF ToNum(y) # NaN /\ ToNum(y) > 0 THEN Scale ELSE 0
    [] act = "sigmoid" -> Mul(y, Sub(Scale, y))
    [] act = "tanh"    -> Sub(Scale, Mul(y, y))
    [] OTHER           -> Scale

applyActivation(a, act) ==
  IF IsThrow(a) \/ Len(a) = 0 THEN Threw
  ELSE IF Len(a[1]) > 0 /\ act \notin ActivationNames THEN Threw
  ELSE Mat(Len(a), Len(a[1]), LAMBDA i, j : ActF(act, At(a[i], j)))

hadamard(a, b) ==
  IF IsThrow(a) \/ IsThrow(b) \/ Len(a) = 0 THEN Threw
  ELSE IF Len(a[1]) > 0 /\ Len(b) < Len(a) THEN Threw
  ELSE Mat(Len(a), Len(a[1]), LAMBDA i, j : Mul(At(a[i], j), At(b[i], j)))

transpose(a) ==
  IF IsThrow(a) \/ a = NullM \/ Len(a) = 0 THEN Threw
  ELSE Mat(Len(a[1]), Len(a), LAMBDA j, i : At(a[i], j))

RECURSIVE SumSq(_, _, _, _, _)
\* sum += e * e over the r x c cells, row by row
SumSq(pred, target, i, j, s) ==
  IF i > Len(pred) THEN s
  ELSE IF j > Len(pred[1]) THEN SumSq(pred, target, i + 1, 1, s)
  ELSE LET e == Sub(At(pred[i], j), At(target[i], j))
       IN  SumSq(pred, target, i, j + 1, Add(s, Mul(e, e)))

\* A faulty mse whose gradient is divided by the batch size.
mseGradByRows(pred, target) ==
  IF IsThrow(pred) \/ Len(pred) = 0
     \/ (Len(pred[1]) > 0 /\ Len(target) < Len(pred))
  THEN [threw |-> TRUE, loss |-> NaN, grad |-> Threw]
  ELSE [threw |-> FALSE,
        loss  |-> DivN(SumSq(pred, target, 1, 1, 0), Len(pred)),
        grad  |-> Mat(Len(pred), Len(pred[1]), LAMBDA i, j :
                     LET e == Sub(At(pred[i], j), At(target[i], j))
                     IN  DivN(Add(e, e), Len(pred)))]

\* mse returns [sum / r, grad]; here a record, with threw for a TypeError.
mse(pred, target) ==
  IF IsThrow(pred) \/ Len(pred) = 0
     \/ (Len(pred[1]) > 0 /\ Len(target) < Len(pred))
  THEN [threw |-> TRUE, loss |-> NaN, grad |-> Threw]
  ELSE [threw |-> FALSE,
        loss  |-> DivN(SumSq(pred, target, 1, 1, 0), Len(pred)),
        grad  |-> Mat(Len(pred), Len(pred[1]), LAMBDA i, j :
                     LET e == Sub(At(pred[i], j), At(target[i], j))
                     IN  DivN(Add(e, e), Len(pred[1])))]

(***************************************************************************)
(* DenseLayer (script.js 103-155).  A layer is a record of the fields the  *)
(* constructor and forward set; X and A are the caches forward leaves for  *)
(* backward (NullM until the first forward).                               *)
(***************************************************************************)
DenseLayer(inputSize_, outputSize_, activation_, useBias_) ==
  [in |-> inputSize_, out |-> outputSize_, activation |-> activation_,
   useBias |-> useBias_,
   W |-> randn(inputSize_, outputSize_),
   b |-> IF useBias_ THEN zeros(1, outputSize_) ELSE NullM,
   X |-> NullM, A |-> NullM]

\* forward(X): [threw, layer, out].  this.X is assigned before anything can
\* throw; this.A only when the whole expression evaluated.
DenseLayer_forward(L, X) ==
  With(applyActivation(
         addBias(dot(X, L.W), IF L.useBias THEN L.b ELSE zeros(1, L.out)),
         L.activation),
       LAMBDA A :
         IF IsThrow(A)
         THEN [threw |-> TRUE, layer |-> [L EXCEPT !.X = X], out |-> Threw]
         ELSE [threw |-> FALSE, layer |-> [L EXCEPT !.X = X, !.A = A], out |-> A])

RECURSIVE ColSum(_, _, _, _)
\* dZ.reduce((s, row) => s + row[j], 0)
ColSum(dZ, j, i, s) ==
  IF i > Len(dZ) THEN s ELSE ColSum(dZ, j, i + 1, Add(s, At(dZ[i], j)))

\* The in-place update loops of backward.  W[i][j] -= lr * dW[i][j] / r runs
\* row by row and throws at the first row of W that dW does not have; the
\* rows before it are already updated.
UpdateW(W, dW, lr, r) ==
  Tab(Len(W), LAMBDA i :
     IF i > Len(dW) THEN W[i]
     ELSE Tab(Len(W[i]), LAMBDA j :
             IF j > Len(W[1]) THEN W[i][j]
             ELSE Sub(W[i][j], DivN(Mul(lr, At(dW[i], j)), r))))
UpdateWThrows(W, dW) == Len(W) > 0 /\ Len(W[1]) > 0 /\ Len(W) > Len(dW)

UpdateB(b, dB, lr, r) ==
  Tab(Len(b), LAMBDA i :
     IF i > 1 THEN b[i]
     ELSE Tab(Len(b[1]), LAMBDA j : Sub(b[1][j], DivN(Mul(lr, At(dB[1], j)), r))))

\* A faulty backward that returns dX computed with the updated weights.
DenseLayer_backwardUpdatedW(L, dA, lr) ==
  IF L.A = NullM \/ Len(L.A) = 0
  THEN [threw |-> TRUE, layer |-> L, dX |-> Threw]
  ELSE
  With(hadamard(dA, Tab(Len(L.A), LAMBDA i :
                      Tab(Len(L.A[i]), LAMBDA j : ActDf(L.activation, L.A[i][j])))),
       LAMBDA dZ :
  IF IsThrow(dZ) THEN [threw |-> TRUE, layer |-> L, dX |-> Threw] ELSE
  With(dot(transpose(L.X), dZ), LAMBDA dW :
  IF IsThrow(dW) THEN [threw |-> TRUE, layer |-> L, dX |-> Threw] ELSE
  With(UpdateW(L.W, dW, lr, Len(L.A)), LAMBDA W1 :
  With(dot(dZ, transpose(W1)), LAMBDA dX :
    IF IsThrow(dX) \/ UpdateWThrows(L.W, dW)
       \/ (L.useBias /\ (L.b = NullM \/ Len(L.b) = 0))
    THEN [threw |-> TRUE, layer |-> [L EXCEPT !.W = W1], dX |-> Threw]
    ELSE [threw |-> FALSE,
          layer |-> [L EXCEPT
                       !.W = W1,
                       !.b = IF L.useBias
                             THEN UpdateB(L.b,
                                    << Tab(Len(L.A[1]), LAMBDA j : ColSum(dZ, j, 1, 0)) >>,
                                    lr, Len(L.A))
                             ELSE L.b],
          dX |-> dX]))))

\* backward(dA, lr): [threw, layer, dX]
DenseLayer_backward(L, dA, lr) ==
  IF L.A = NullM \/ Len(L.A) = 0
  THEN [threw |-> TRUE, layer |-> L, dX |-> Threw]
  ELSE
  With(hadamard(dA, Tab(Len(L.A), LAMBDA i :
                      Tab(Len(L.A[i]), LAMBDA j : ActDf(L.activation, L.A[i][j])))),
       LAMBDA dZ :
  IF IsThrow(dZ) THEN [threw |-> TRUE, layer |-> L, dX |-> Threw] ELSE
  With(dot(transpose(L.X), dZ), LAMBDA dW :
  IF IsThrow(dW) THEN [threw |-> TRUE, layer |-> L, dX |-> Threw] ELSE
  With(dot(dZ, transpose(L.W)), LAMBDA dX :
    IF IsThrow(dX)
    THEN [threw |-> TRUE, layer |-> L, dX |-> Threw]
    ELSE
    With(UpdateW(L.W, dW, lr, Len(L.A)), LAMBDA W1 :
      IF UpdateWThrows(L.W, dW) \/ (L.useBias /\ (L.b = NullM \/ Len(L.b) = 0))
      THEN [threw |-> TRUE, layer |-> [L EXCEPT !.W = W1], dX |-> Threw]
      ELSE [threw |-> FALSE,
            layer |-> [L EXCEPT
                         !.W = W1,
                         !.b = IF L.useBias
                               THEN UpdateB(L.b,
                                      << Tab(Len(L.A[1]), LAMBDA j : ColSum(dZ, j, 1, 0)) >>,
                                      lr, Len(L.A))
                               ELSE L.b],
            dX |-> dX]))))

(***************************************************************************)
(* Network (script.js 156-172): layers in order.                           *)
(***************************************************************************)
RECURSIVE ForwardFrom(_, _, _)
\* for (const L of this.layers) A = L.forward(A), from layer k on
ForwardFrom(layers, k, A) ==
  IF k > Len(layers) THEN [threw |-> FALSE, layers |-> layers, out |-> A]
  ELSE With(DenseLayer_forward(layers[k], A), LAMBDA f :
         IF f.threw
         THEN [threw |-> TRUE, layers |-> [layers EXCEPT ![k] = f.layer], out |-> Threw]
         ELSE ForwardFrom([layers EXCEPT ![k] = f.layer], k + 1, f.out))

Network_forward(layers, X) == ForwardFrom(layers, 1, X)

RECURSIVE BackwardFrom(_, _, _, _)
\* for (i = length - 1; i >= 0; i--) dA = this.layers[i].backward(dA, lr)
BackwardFrom(layers, k, dA, lr) ==
  IF k < 1 THEN [threw |-> FALSE, layers |-> layers]
  ELSE With(DenseLayer_backward(layers[k], dA, lr), LAMBDA g :
         IF g.threw
         THEN [threw |-> TRUE, layers |-> [layers EXCEPT ![k] = g.layer]]
         ELSE BackwardFrom([layers EXCEPT ![k] = g.layer], k - 1, g.dX, lr))

\* A faulty backward that stops after the last layer.
Network_backwardLastLayerOnly(layers, dA, lr) ==
  IF Len(layers) = 0 THEN [threw |-> FALSE, layers |-> layers]
  ELSE With(DenseLayer_backward(layers[Len(layers)], dA, lr), LAMBDA g :
         [threw |-> g.threw, layers |-> [layers EXCEPT ![Len(layers)] = g.layer]])

Network_backward(layers, dA, lr) == BackwardFrom(layers, Len(layers), dA, lr)

(***************************************************************************)
(* State (script.js 174-182, and the controls the handlers read and set).  *)
(***************************************************************************)
VARIABLES
  arch,              \* the cards: <<[type, neurons, activation, bias]>>
  inputSize,
  outputSize,
  dataset,           \* [X, y]
  net,               \* net.layers
  stopFlag,
  lastNodeColors,    \* NullM, or the raw activations per layer
  chart,             \* [labels, data] of the loss chart
  btnTrainDisabled,
  btnStopDisabled,
  testInputs,        \* number of fields rendered in #testInputs
  loops,             \* the trainLoop activations suspended at their await
  last,              \* what the last handler did: its calls and its alert
  steps,             \* user events so far
  call               \* an engine function applied on its own: arguments, result

vars == <<arch, inputSize, outputSize, dataset, net, stopFlag, lastNodeColors,
          chart, btnTrainDisabled, btnStopDisabled, testInputs, loops, last,
          steps, call>>

\* The globals the helper functions read and write, threaded through them.
Globals == [arch |-> arch, inputSize |-> inputSize, outputSize |-> outputSize,
            dataset |-> dataset, net |-> net, lastNodeColors |-> lastNodeColors,
            testInputs |-> testInputs]

SetGlobals(g) ==
  /\ arch' = g.arch
  /\ inputSize' = g.inputSize
  /\ outputSize' = g.outputSize
  /\ dataset' = g.dataset
  /\ net' = g.net
  /\ lastNodeColors' = g.lastNodeColors
  /\ testInputs' = g.testInputs

\* A card.  A field the code leaves out of the object literal is "undefined".
Card(type, neurons, activation, bias) ==
  [type |-> type, neurons |-> neurons, activation |-> activation, bias |-> bias]
InputCard(n) == Card("input", n, "undefined", "undefined")

Falsy(v) == v \in {"undefined", "null", ""}

\* renderTestInputs (script.js 219-234): one field per i < inputSize
renderTestInputs(g) ==
  [g EXCEPT !.testInputs = IF g.inputSize > 0 THEN g.inputSize ELSE 0]

RECURSIVE BuildLayers(_, _, _, _)
\* the arch.forEach of buildNetwork: <<layers, lastSize>>
BuildLayers(a, k, lastSize, layers) ==
  IF k > Len(a) THEN <<layers, lastSize>>
  ELSE IF a[k].type = "input"
  THEN BuildLayers(a, k + 1, a[k].neurons, layers)
  ELSE LET act     == IF Falsy(a[k].activation) THEN "relu" ELSE a[k].activation
           useBias == a[k].bias # "false"
       IN  BuildLayers(a, k + 1, a[k].neurons,
                       Append(layers, DenseLayer(lastSize, a[k].neurons, act, useBias)))

\* A faulty build that keeps a layer whose shape did not change.
buildNetworkKeepingWeights(g) ==
  LET built == BuildLayers(g.arch, 1, g.inputSize, <<>>)
  IN  renderTestInputs(
        [g EXCEPT !.net = Tab(Len(built[1]), LAMBDA k :
                            IF /\ k <= Len(g.net)
                               /\ g.net[k].in = built[1][k].in
                               /\ g.net[k].out = built[1][k].out
                            THEN [built[1][k] EXCEPT !.W = g.net[k].W, !.b = g.net[k].b]
                            ELSE built[1][k]),
                  !.outputSize = built[2],
                  !.lastNodeColors = NullM])

\* A faulty build that leaves outputSize as it finds it.
buildNetworkKeepingOutputSize(g) ==
  LET built == BuildLayers(g.arch, 1, g.inputSize, <<>>)
  IN  renderTestInputs([g EXCEPT !.net = built[1],
                                 !.lastNodeColors = NullM])

\* buildNetwork (script.js 534-552)
buildNetwork(g) ==
  LET built == BuildLayers(g.arch, 1, g.inputSize, <<>>)
  IN  renderTestInputs([g EXCEPT !.net = built[1],
                                 !.outputSize = built[2],
                                 !.lastNodeColors = NullM])

\* ensureIOInArch (script.js 587-613): the first input card and the first
\* output card are made to carry inputSize and outputSize, or are created.
FirstOf(a, type) ==
  IF \E k \in 1..Len(a) : a[k].type = type
  THEN CHOOSE k \in 1..Len(a) :
         a[k].type = type /\ \A m \in 1..(k - 1) : a[m].type # type
  ELSE 0

ensureIOInArch(g) ==
  LET i  == FirstOf(g.arch, "input")
      a1 == IF i = 0 THEN <<InputCard(g.inputSize)>> \o g.arch
            ELSE [g.arch EXCEPT ![i].neurons = g.inputSize]
      o  == FirstOf(a1, "output")
      a2 == IF o = 0
            THEN Append(a1, Card("output", g.outputSize, "sigmoid", "true"))
            ELSE [a1 EXCEPT ![o].neurons = g.outputSize,
                            ![o].activation =
                               IF Falsy(a1[o].activation) THEN "sigmoid"
                               ELSE a1[o].activation]
  IN  buildNetwork([g EXCEPT !.arch = a2])

\* addLayer (script.js 409-431)
addLayer(g, type) ==
  LET card == IF type = "input" THEN InputCard(g.inputSize)
              ELSE IF type = "output"
              THEN Card("output", g.outputSize, "sigmoid", "true")
              ELSE Card("hidden", 4, "relu", "true")
  IN  buildNetwork([g EXCEPT !.arch = Append(g.arch, card)])

\* The preset datasets of loadPreset (script.js 555-586).
XorX == << <<0, 0>>, <<0, Scale>>, <<Scale, 0>>, <<Scale, Scale>> >>
XorY == << <<0>>, <<Scale>>, <<Scale>>, <<0>> >>

RECURSIVE Linsep(_, _, _)
\* r = rng(7); LinsepRows times: a = r(), b = r(); [a, b] -> a + b > 1
Linsep(s, n, acc) ==
  IF n = 0 THEN acc
  ELSE LET s1 == rngStep(s)
           s2 == rngStep(s1)
           a  == rngDraw(s1)
           b  == rngDraw(s2)
       IN  Linsep(s2, n - 1,
             [X |-> Append(acc.X, <<Quot(a * Scale, Million), Quot(b * Scale, Million)>>),
              y |-> Append(acc.y, <<IF a + b > Million THEN Scale ELSE 0>>)])

loadPreset(g, name) ==
  IF name = "xor"
  THEN renderTestInputs(ensureIOInArch(
         [g EXCEPT !.dataset = [X |-> XorX, y |-> XorY],
                   !.inputSize = 2, !.outputSize = 1]))
  ELSE IF name = "linsep"
  THEN renderTestInputs(ensureIOInArch(
         [g EXCEPT !.dataset = Linsep(rngSeed(7), LinsepRows, [X |-> <<>>, y |-> <<>>]),
                   !.inputSize = 2, !.outputSize = 1]))
  ELSE renderTestInputs(g)

(***************************************************************************)
(* The record each handler leaves in `last`: its name, the alert it        *)
(* showed, the Network calls it made in order, whether an exception left   *)
(* it, and two facts about the state it started from.                      *)
(***************************************************************************)
Fresh(L) ==
  /\ L.W = randn(L.in, L.out)
  /\ L.b = (IF L.useBias THEN zeros(1, L.out) ELSE NullM)
  /\ L.X = NullM
  /\ L.A = NullM
NetFresh(layers) == \A k \in 1..Len(layers) : Fresh(layers[k])
\* some layer's weights are no longer the initial ones
Learned(layers) == \E k \in 1..Len(layers) : layers[k].W # randn(layers[k].in, layers[k].out)

Log(handler, arg, alert, calls, threw) ==
  [handler |-> handler, arg |-> arg, alert |-> alert, calls |-> calls,
   threw |-> threw,
   run |-> [done |-> 0, epochs |-> 0],
   pre |-> [stopFlag |-> stopFlag, fresh |-> NetFresh(net),
            learned |-> Learned(net), running |-> Len(loops)]]

\* The record of a step of trainLoop: the activation has completed `done` of
\* its `epochs` epochs when the step ends.
TrainLog(handler, arg, calls, threw, done, epochs) ==
  [Log(handler, arg, "", calls, threw) EXCEPT !.run = [done |-> done, epochs |-> epochs]]

Step == /\ steps < MaxSteps
        /\ steps' = steps + 1
        /\ call' = call

Controls == <<stopFlag, chart, btnTrainDisabled, btnStopDisabled, loops>>

(***************************************************************************)
(* The architecture editor.                                                *)
(***************************************************************************)
PaletteTypes == {"input", "hidden", "output"}

\* A palette item dropped on the zone, or the "add hidden" button
\* (script.js 400-406, 1117).
AddLayer(type) ==
  /\ Step
  /\ Len(arch) < MaxArch
  /\ SetGlobals(addLayer(Globals, type))
  /\ last' = Log("addLayer", type, "", <<>>, FALSE)
  /\ UNCHANGED Controls

RemoveAt(a, k) == SubSeq(a, 1, k - 1) \o SubSeq(a, k + 1, Len(a))
InsertAt(a, k, e) == SubSeq(a, 1, k - 1) \o <<e>> \o SubSeq(a, k, Len(a))

\* The remove button of card k (script.js 325-332).
RemoveLayer(k) ==
  /\ Step
  /\ k \in 1..Len(arch)
  /\ SetGlobals(buildNetwork([Globals EXCEPT !.arch = RemoveAt(arch, k)]))
  /\ last' = Log("remove", "", "", <<>>, FALSE)
  /\ UNCHANGED Controls

\* Values the controls of a card are set to.
NeuronChoices == {1, 2}
InputChoices == {-1, 1, 3}
ActChoices == {"tanh", "linear"}

\* The input handler of a control of card k (script.js 335-352).
fieldInput(g, k, fld, value) ==
  LET a == IF fld = "neurons" THEN [g.arch EXCEPT ![k].neurons = value]
           ELSE IF fld = "activation" THEN [g.arch EXCEPT ![k].activation = value]
           ELSE [g.arch EXCEPT ![k].bias = value]
      n == IF fld = "neurons" /\ g.arch[k].type = "input" THEN value
           ELSE g.inputSize
  IN  buildNetwork([g EXCEPT !.arch = a, !.inputSize = n])

EditField(k, fld, value) ==
  /\ Step
  /\ k \in 1..Len(arch)
  /\ \/ fld = "neurons" /\ arch[k].type = "input" /\ value \in InputChoices
     \/ fld = "neurons" /\ arch[k].type # "input" /\ value \in NeuronChoices
     \/ fld = "activation" /\ arch[k].type # "input" /\ value \in ActChoices
     \/ /\ fld = "bias" /\ arch[k].type # "input"
        \* the checkbox is drawn checked iff L.bias is truthy (script.js 317)
        /\ value = (IF arch[k].bias = "true" THEN "false" ELSE "true")
  /\ SetGlobals(fieldInput(Globals, k, fld, value))
  /\ last' = Log("fieldInput", fld, "", <<>>, FALSE)
  /\ UNCHANGED Controls

\* Card `from` dropped on card `to` (script.js 367-379).  The drop event then
\* bubbles to the zone, whose handler (script.js 400-406) reads the card id
\* as a type and so adds a hidden layer.
cardDrop(g, from, to) ==
  LET moved == IF from = to THEN g
               ELSE buildNetwork([g EXCEPT !.arch =
                      InsertAt(RemoveAt(g.arch, from), to, g.arch[from])])
  IN  addLayer(moved, "card-id")

CardDrop(from, to) ==
  /\ Step
  /\ from \in 1..Len(arch)
  /\ to \in 1..Len(arch)
  /\ Len(arch) < MaxArch
  /\ SetGlobals(cardDrop(Globals, from, to))
  /\ last' = Log("cardDrop", "", "", <<>>, FALSE)
  /\ UNCHANGED Controls

\* btnClear (script.js 1118-1123)
Clear ==
  /\ Step
  /\ SetGlobals(buildNetwork([Globals EXCEPT !.arch = <<>>]))
  /\ last' = Log("btnClear", "", "", <<>>, FALSE)
  /\ UNCHANGED Controls

(***************************************************************************)
(* Datasets.                                                               *)
(***************************************************************************)
\* btnLoadPreset (script.js 1110-1114)
LoadPreset(name) ==
  /\ Step
  /\ name \in {"xor", "linsep"}
  /\ SetGlobals(loadPreset(Globals, name))
  /\ last' = Log("btnLoadPreset", name, "", <<>>, FALSE)
  /\ UNCHANGED Controls

\* btnQuickStart (script.js 1085-1107)
QuickStart ==
  /\ Step
  /\ SetGlobals(loadPreset(
       buildNetwork([Globals EXCEPT
         !.arch = << InputCard(2), Card("hidden", 4, "tanh", "true"),
                     Card("output", 1, "sigmoid", "true") >>,
         !.inputSize = 2, !.outputSize = 1]), "xor"))
  /\ last' = Log("btnQuickStart", "", "", <<>>, FALSE)
  /\ UNCHANGED Controls

\* CSV files, as the rows of numbers left after the header is dropped.
CsvFiles == { << <<0, Scale>>, <<Scale, 0>> >>,              \* two columns
              << <<0, 0, Scale>>, <<Scale, Scale>> >>,       \* a short row
              << <<0>>, <<Scale>> >> }                       \* one column

Slice(row, n) == SubSeq(row, 1, IF n < Len(row) THEN n ELSE Len(row))

\* fr.onload of handleCSVFile (script.js 618-635)
handleCSVFile(g, data) ==
  LET cols == Len(data[1])
  IN  renderTestInputs(ensureIOInArch(
        [g EXCEPT !.inputSize = cols - 1, !.outputSize = 1,
                  !.dataset = [X |-> Tab(Len(data), LAMBDA i : Slice(data[i], cols - 1)),
                               y |-> Tab(Len(data), LAMBDA i : <<At(data[i], cols)>>)]]))

CsvLoaded(data) ==
  /\ Step
  /\ data \in CsvFiles
  /\ SetGlobals(handleCSVFile(Globals, data))
  /\ last' = Log("handleCSVFile", "", "", <<>>, FALSE)
  /\ UNCHANGED Controls

(***************************************************************************)
(* Training (script.js 15-20, 657-666, 724-780).                           *)
(***************************************************************************)
Swap(a, i, j) == [a EXCEPT ![i] = a[j], ![j] = a[i]]

RECURSIVE Shuffle(_, _, _)
\* shuffleInPlace: for (i = length - 1; i > 0; i--) swap arr[i], arr[floor(rand() * (i + 1))]
\* (i is the 0-based index of the code); returns <<arr, rand>>
Shuffle(arr, i, s) ==
  IF i <= 0 THEN <<arr, s>>
  ELSE LET s1 == rngStep(s)
           j  == (rngDraw(s1) * (i + 1)) \div Million
       IN  Shuffle(Swap(arr, i + 1, j + 1), i - 1, s1)

RECURSIVE Slices(_, _, _)
\* for (i = 0; i < idx.length; i += batch) idx.slice(i, i + batch)
Slices(idx, i, batch) ==
  IF i >= Len(idx) THEN <<>>
  ELSE <<SubSeq(idx, i + 1, IF i + batch < Len(idx) THEN i + batch ELSE Len(idx))>>
       \o Slices(idx, i + batch, batch)

\* A faulty getBatches that takes the targets in dataset order.
getBatchesTargetsUnshuffled(X, y, batch, s) ==
  With(Shuffle(Tab(Len(X), LAMBDA i : i), Len(X) - 1, s), LAMBDA sh :
  With(Slices(sh[1], 0, batch), LAMBDA sl :
    [batches |-> Tab(Len(sl), LAMBDA k :
                   [X |-> Tab(Len(sl[k]), LAMBDA m : X[sl[k][m]]),
                    y |-> Tab(Len(sl[k]), LAMBDA m : y[(k - 1) * batch + m])]),
     rand |-> sh[2]]))

\* getBatches: [batches, rand]; a batch is [X, y]
getBatches(X, y, batch, s) ==
  With(Shuffle(Tab(Len(X), LAMBDA i : i), Len(X) - 1, s), LAMBDA sh :
  With(Slices(sh[1], 0, batch), LAMBDA sl :
    [batches |-> Tab(Len(sl), LAMBDA k :
                   [X |-> Tab(Len(sl[k]), LAMBDA m : X[sl[k][m]]),
                    y |-> Tab(Len(sl[k]), LAMBDA m : y[sl[k][m]])]),
     rand |-> sh[2]]))

\* A faulty threshold under which exactly 0.5 is class 0.
ThresholdStrict(v) == IF ToNum(v) # NaN /\ ToNum(v) > Scale \div 2 THEN Scale ELSE 0

\* pred[i][0] >= 0.5 ? 1 : 0 (script.js 670); NaN and undefined compare false
Threshold(v) ==
  IF v # Undef /\ ToNum(v) # NaN /\ ToNum(v) >= Scale \div 2 THEN Scale ELSE 0

RECURSIVE CountOk(_, _, _, _)
\* ok += p === t ? 1 : 0, for i < pred.length
CountOk(pred, y, i, ok) ==
  IF i > Len(pred) THEN ok
  ELSE CountOk(pred, y, i + 1,
               ok + (IF Threshold(At(pred[i], 1)) = At(y[i], 1) THEN 1 ELSE 0))

\* accuracyBinary (script.js 667-675): ok / pred.length; reading y[i][0] of
\* a row y does not have throws.
accuracyBinary(pred, y) ==
  IF Len(y) < Len(pred) THEN [threw |-> TRUE, acc |-> NaN]
  ELSE IF Len(pred) = 0 THEN [threw |-> FALSE, acc |-> NaN]
  ELSE [threw |-> FALSE, acc |-> Quot(CountOk(pred, y, 1, 0) * Scale, Len(pred))]

Call(op, who, X) == [op |-> op, who |-> who, X |-> X]

\* A faulty batch step that snapshots activations between forward and backward.
BatchStepWithSnapshot(layers, b, lr) ==
  With(Network_forward(layers, b.X), LAMBDA f :
  IF f.threw
  THEN [threw |-> TRUE, layers |-> f.layers,
        calls |-> <<Call("forward", "batch", b.X)>>]
  ELSE
  With(mse(f.out, b.y), LAMBDA m :
  With(Network_forward(f.layers, <<b.X[1]>>), LAMBDA p :
    IF m.threw \/ p.threw
    THEN [threw |-> TRUE, layers |-> p.layers,
          calls |-> <<Call("forward", "batch", b.X),
                      Call("forward", "probe", <<b.X[1]>>)>>]
    ELSE With(Network_backward(p.layers, m.grad, lr), LAMBDA g :
           [threw |-> g.threw, layers |-> g.layers,
            calls |-> <<Call("forward", "batch", b.X),
                        Call("forward", "probe", <<b.X[1]>>),
                        Call("backward", "batch", b.X)>>]))))

\* One pass of the batch loop body (script.js 755-757): the calls it makes.
BatchStep(layers, b, lr) ==
  With(Network_forward(layers, b.X), LAMBDA f :
  IF f.threw
  THEN [threw |-> TRUE, layers |-> f.layers,
        calls |-> <<Call("forward", "batch", b.X)>>]
  ELSE
  With(mse(f.out, b.y), LAMBDA m :
    IF m.threw
    THEN [threw |-> TRUE, layers |-> f.layers,
          calls |-> <<Call("forward", "batch", b.X)>>]
    ELSE With(Network_backward(f.layers, m.grad, lr), LAMBDA g :
           [threw |-> g.threw, layers |-> g.layers,
            calls |-> <<Call("forward", "batch", b.X),
                        Call("backward", "batch", b.X)>>])))

RECURSIVE RunBatches(_, _, _, _, _)
\* for (const b of batches) { forward; mse; backward }
RunBatches(layers, batches, k, lr, calls) ==
  IF k > Len(batches) THEN [threw |-> FALSE, layers |-> layers, calls |-> calls]
  ELSE With(BatchStep(layers, batches[k], lr), LAMBDA r :
         IF r.threw
         THEN [threw |-> TRUE, layers |-> r.layers, calls |-> calls \o r.calls]
         ELSE RunBatches(r.layers, batches, k + 1, lr, calls \o r.calls))

\* computeNodeColorsForInput (script.js 191-216): a forward of [xvec], then
\* the snapshot of each layer's A[0].
RawColors(layers) ==
  Tab(Len(layers), LAMBDA k :
    IF layers[k].A # NullM /\ Len(layers[k].A) > 0 THEN layers[k].A[1] ELSE <<>>)

computeNodeColorsForInput(layers, colors, xvec) ==
  With(Network_forward(layers, <<xvec>>), LAMBDA f :
    [threw |-> f.threw, layers |-> f.layers,
     colors |-> IF f.threw THEN colors ELSE RawColors(f.layers)])

\* A faulty push that records the epoch label but not its loss.
ChartPushLabelOnly(ch, ep, L) == [labels |-> Append(ch.labels, ep), data |-> ch.data]

\* ch.data.labels.push(ep); ch.data.datasets[0].data.push(L) (script.js 766-767)
ChartPush(ch, ep, L) ==
  [labels |-> Append(ch.labels, ep), data |-> Append(ch.data, L)]

\* The body of the epoch loop up to its await (script.js 753-772), for a
\* suspended-or-starting activation fr about to run epoch ep.
Epoch(layers, colors, ch, fr, ep) ==
  With(getBatches(fr.X, fr.y, fr.batch, fr.rand), LAMBDA gb :
  With(RunBatches(layers, gb.batches, 1, fr.lr, <<>>), LAMBDA rb :
    IF rb.threw
    THEN [threw |-> TRUE, layers |-> rb.layers, colors |-> colors, chart |-> ch,
          calls |-> rb.calls, rand |-> gb.rand]
    ELSE
    With(Network_forward(rb.layers, fr.X), LAMBDA full :
    With(IF full.threw THEN [threw |-> TRUE, loss |-> NaN, grad |-> Threw]
         ELSE mse(full.out, fr.y), LAMBDA m :
      IF m.threw
      THEN [threw |-> TRUE, layers |-> full.layers, colors |-> colors, chart |-> ch,
            calls |-> Append(rb.calls, Call("forward", "eval", fr.X)),
            rand |-> gb.rand]
      ELSE
      With(computeNodeColorsForInput(full.layers, colors, fr.probe), LAMBDA cn :
        [threw |-> cn.threw, layers |-> cn.layers, colors |-> cn.colors,
         chart |-> ChartPush(ch, ep, m.loss),
         calls |-> rb.calls \o <<Call("forward", "eval", fr.X),
                                 Call("forward", "probe", <<fr.probe>>)>>,
         rand |-> gb.rand])))))

\* Values of the #lr, #epochs and #batch controls.
LrChoices == {Scale \div 2}
BatchChoices == {3}
EmptyChart == [labels |-> <<>>, data |-> <<>>]

\* A faulty start that does not validate the dataset.
NoDataUnchecked(d) == FALSE

\* if (dataset.X.length === 0) (script.js 730)
NoData(d) == Len(d.X) = 0

\* The click handler's t.disabled = true; s.disabled = false (script.js 1067-1070)
btnTrainClick == [btnTrainDisabled |-> TRUE, btnStopDisabled |-> FALSE]
\* Faulty starts: one leaves the Train button enabled, one leaves the flag.
trainLoopStartTrainEnabled ==
  [stopFlag |-> FALSE, btnStopDisabled |-> FALSE, btnTrainDisabled |-> FALSE]
trainLoopStartKeepingFlag ==
  [stopFlag |-> stopFlag, btnStopDisabled |-> FALSE, btnTrainDisabled |-> TRUE]

\* stopFlag = false; btnStop.disabled = false; btnTrain.disabled = true
\* (script.js 739-741)
trainLoopStart ==
  [stopFlag |-> FALSE, btnStopDisabled |-> FALSE, btnTrainDisabled |-> TRUE]
\* btnStop.disabled = true; btnTrain.disabled = false (script.js 777-778)
trainLoopEnd == [btnStopDisabled |-> TRUE, btnTrainDisabled |-> FALSE]

\* A faulty loop that never reads the flag.
LoopEndsIgnoringStop(fr) == fr.ep + 1 > fr.epochs

\* if (stopFlag) break, then ep++ and ep <= epochs (script.js 752, 775), for
\* an activation that has completed fr.ep epochs
LoopEnds(fr) == stopFlag \/ fr.ep + 1 > fr.epochs

\* trainLoop from its start to its first await, return or throw
\* (script.js 724-772), after the click handler has set the two buttons.
TrainStart(epochs, batch, lr) ==
  IF NoData(dataset)
  THEN \* alert and return
       /\ btnTrainDisabled' = btnTrainClick.btnTrainDisabled
       /\ btnStopDisabled' = btnTrainClick.btnStopDisabled
       /\ last' = Log("btnTrain", "", "Carica o scegli un preset/CSV prima di allenare.",
                      <<>>, FALSE)
       /\ UNCHANGED <<arch, inputSize, outputSize, dataset, net, lastNodeColors,
                      testInputs, stopFlag, chart, loops>>
  ELSE LET fr == [ep |-> 1, epochs |-> epochs, batch |-> batch, lr |-> lr,
                  X |-> dataset.X, y |-> dataset.y,
                  probe |-> IF Len(dataset.X) > 0 THEN dataset.X[1]
                            ELSE Tab(inputSize, LAMBDA i : 0),
                  rand |-> rngSeed(42)]
       IN  /\ stopFlag' = trainLoopStart.stopFlag
           /\ UNCHANGED <<arch, inputSize, outputSize, dataset, testInputs>>
           /\ IF epochs < 1
              THEN \* the loop body never runs: lines 777-779
                   /\ btnStopDisabled' = trainLoopEnd.btnStopDisabled
                   /\ btnTrainDisabled' = trainLoopEnd.btnTrainDisabled
                   /\ chart' = EmptyChart
                   /\ last' = TrainLog("btnTrain", "finished", <<>>, FALSE, 0, epochs)
                   /\ UNCHANGED <<net, lastNodeColors, loops>>
              ELSE \E e \in {Epoch(net, lastNodeColors, EmptyChart, fr, 1)} :
                   /\ btnStopDisabled' = trainLoopStart.btnStopDisabled
                   /\ btnTrainDisabled' = trainLoopStart.btnTrainDisabled
                   /\ chart' = e.chart
                   /\ net' = e.layers
                   /\ lastNodeColors' = e.colors
                   /\ loops' = IF e.threw THEN loops
                               ELSE Append(loops, [fr EXCEPT !.rand = e.rand])
                   /\ last' = TrainLog("btnTrain", IF e.threw THEN "threw" ELSE "epoch",
                                       e.calls, e.threw, IF e.threw THEN 0 ELSE 1, epochs)

\* btnTrain (script.js 1066-1072).  A disabled button gets no click.
BtnTrain(epochs, batch, lr) ==
  /\ Step
  /\ ~btnTrainDisabled
  /\ epochs \in 0..MaxEpochs
  /\ batch \in BatchChoices
  /\ lr \in LrChoices
  /\ TrainStart(epochs, batch, lr)

\* The continuation of the await (script.js 772-780) of activation i.
Resume(i) ==
  /\ i \in 1..Len(loops)
  /\ LET fr == loops[i]
     IN  IF LoopEnds(fr)
         THEN \* break, or the loop condition fails: lines 777-779
              /\ btnStopDisabled' = trainLoopEnd.btnStopDisabled
              /\ btnTrainDisabled' = trainLoopEnd.btnTrainDisabled
              /\ loops' = RemoveAt(loops, i)
              /\ last' = TrainLog("trainLoop", IF stopFlag THEN "break" ELSE "finished",
                                  <<>>, FALSE, fr.ep, fr.epochs)
              /\ UNCHANGED <<net, lastNodeColors, chart>>
         ELSE \E e \in {Epoch(net, lastNodeColors, chart, fr, fr.ep + 1)} :
              /\ net' = e.layers
              /\ lastNodeColors' = e.colors
              /\ chart' = e.chart
              /\ loops' = IF e.threw THEN RemoveAt(loops, i)
                          ELSE [loops EXCEPT ![i].ep = fr.ep + 1, ![i].rand = e.rand]
              /\ last' = TrainLog("trainLoop", IF e.threw THEN "threw" ELSE "epoch",
                                  e.calls, e.threw,
                                  IF e.threw THEN fr.ep ELSE fr.ep + 1, fr.epochs)
              /\ UNCHANGED <<btnTrainDisabled, btnStopDisabled>>
  /\ UNCHANGED <<arch, inputSize, outputSize, dataset, testInputs, stopFlag, steps,
                 call>>

\* btnStop (script.js 1073-1075).  Clicking again changes nothing more, so
\* the click is not counted among the MaxSteps user actions.
BtnStop ==
  /\ ~btnStopDisabled
  /\ stopFlag' = TRUE
  /\ last' = Log("btnStop", "", "", <<>>, FALSE)
  /\ UNCHANGED <<arch, inputSize, outputSize, dataset, net, lastNodeColors,
                 testInputs, chart, btnTrainDisabled, btnStopDisabled, loops, steps,
                 call>>

(***************************************************************************)
(* Prediction (script.js 783-795, 1078-1082).                              *)
(***************************************************************************)
PredictValues == {0, Scale}

\* A faulty guard that lets every vector through.
InputMismatchUnchecked(vals, n) == FALSE

\* if (vals.length !== inputSize) (script.js 785)
InputMismatch(vals, n) == Len(vals) # n

\* btnPredict with every test field holding v.  When the fields are not
\* inputSize many the handler redraws them first: a kept field keeps v, a new
\* one holds 0.  predictOnce then reads the fields there are.
BtnPredict(v) ==
  /\ Step
  /\ v \in PredictValues
  /\ \E fields \in {IF testInputs # inputSize
                    THEN renderTestInputs(Globals).testInputs ELSE testInputs} :
     \E vals \in {Tab(fields, LAMBDA i : IF i <= testInputs THEN v ELSE 0)} :
         /\ testInputs' = fields
         /\ IF InputMismatch(vals, inputSize)
            THEN \* alert and return
                 /\ last' = Log("btnPredict", "", "Dimensione input non coerente con la rete.",
                                <<>>, FALSE)
                 /\ UNCHANGED <<net, lastNodeColors>>
            ELSE
            \E f \in {Network_forward(net, <<vals>>)} :
            IF f.threw
            THEN /\ net' = f.layers
                 /\ last' = Log("btnPredict", "", "", <<Call("forward", "predict", <<vals>>)>>, TRUE)
                 /\ UNCHANGED lastNodeColors
            ELSE \E cn \in {computeNodeColorsForInput(f.layers, lastNodeColors, vals)} :
                 /\ net' = cn.layers
                 /\ lastNodeColors' = cn.colors
                 /\ last' = Log("btnPredict", "", "",
                                <<Call("forward", "predict", <<vals>>),
                                  Call("forward", "probe", <<vals>>)>>, cn.threw)
  /\ UNCHANGED <<arch, inputSize, outputSize, dataset>>
  /\ UNCHANGED Controls

(***************************************************************************)
(* JSON export and import (script.js 798-970).  A payload is the value     *)
(* JSON.parse gives back for the text JSON.stringify wrote: NaN and        *)
(* undefined cells come back as null.                                      *)
(***************************************************************************)
JsonNum(v) == IF v = NaN \/ v = Undef THEN Null ELSE v
JsonMat(m) ==
  IF m = NullM THEN NullM
  ELSE Tab(Len(m), LAMBDA i : Tab(Len(m[i]), LAMBDA j : JsonNum(m[i][j])))

LayerRecords(layers) ==
  Tab(Len(layers), LAMBDA k :
    [in |-> layers[k].in, out |-> layers[k].out,
     activation |-> layers[k].activation, useBias |-> layers[k].useBias,
     W |-> JsonMat(layers[k].W), b |-> JsonMat(layers[k].b)])

\* What JSON.parse gives for the chosen file.  parses is FALSE for a text
\* that is not JSON; nullWeights holds the indexes i with o.weights[i] null.
NoPayload == [parses |-> TRUE,
              hasLayers |-> FALSE, layers |-> <<>>,
              hasArchitecture |-> FALSE, architecture |-> <<>>,
              hasWeights |-> FALSE, weights |-> <<>>, nullWeights |-> {}]

\* downloadWeights (script.js 952-970): the file it writes
downloadWeights(layers) ==
  [NoPayload EXCEPT !.hasLayers = TRUE, !.layers = LayerRecords(layers)]

\* updateJSON (script.js 798-818): the text it puts in #jsonArea
updateJSON(a, layers) ==
  [NoPayload EXCEPT
     !.hasArchitecture = TRUE,
     !.architecture = Tab(Len(a), LAMBDA k :
        Card(a[k].type, a[k].neurons,
             IF Falsy(a[k].activation) THEN "null" ELSE a[k].activation,
             IF a[k].bias \in {"undefined", "null"} THEN "null" ELSE a[k].bias)),
     !.hasWeights = TRUE,
     !.weights = LayerRecords(layers)]

BoolStr(v) == IF v THEN "true" ELSE "false"

RECURSIVE ImportLayers(_, _, _, _)
\* o.layers.map(L => { d = new DenseLayer(last, L.out, ...); d.W = L.W; d.b = L.b })
ImportLayers(recs, k, lastSize, layers) ==
  IF k > Len(recs) THEN layers
  ELSE ImportLayers(recs, k + 1, recs[k].out,
         Append(layers,
           [DenseLayer(lastSize, recs[k].out, recs[k].activation, recs[k].useBias)
              EXCEPT !.W = recs[k].W, !.b = recs[k].b]))

\* the weights-format branch (script.js 830-874), for a non-empty o.layers
importWeights(g, o) ==
  LET n    == Len(o.layers)
      inS  == o.layers[1].in
      outS == o.layers[n].out
      a    == <<InputCard(inS)>>
              \o Tab(n - 1, LAMBDA k :
                   Card("hidden", o.layers[k].out, o.layers[k].activation,
                        BoolStr(o.layers[k].useBias)))
              \o <<Card("output", outS,
                        IF Falsy(o.layers[n].activation) THEN "sigmoid"
                        ELSE o.layers[n].activation,
                        BoolStr(o.layers[n].useBias))>>
  IN  renderTestInputs([g EXCEPT !.inputSize = inS, !.outputSize = outS,
                                 !.arch = a,
                                 !.net = ImportLayers(o.layers, 1, inS, <<>>)])

\* A faulty test that also accepts a weights array longer than the network.
WeightsMatchAtLeast(o, layers) == o.hasWeights /\ Len(o.weights) >= Len(layers)

\* Array.isArray(o.weights) && o.weights.length === net.layers.length
\* (script.js 892-895)
WeightsMatch(o, layers) == o.hasWeights /\ Len(o.weights) = Len(layers)

\* The index at which the loop over o.weights throws: reading .W of a null
\* entry is a TypeError.  Past the end when no entry is null.
FirstNull(o) ==
  IF o.nullWeights = {} THEN Len(o.weights) + 1
  ELSE CHOOSE i \in o.nullWeights : \A j \in o.nullWeights : i <= j

\* the loop that applies o.weights (script.js 896-901), up to entry stop - 1
ApplyWeights(layers, w, stop) ==
  Tab(Len(layers), LAMBDA k :
    IF k < stop /\ w[k].W # NullM /\ w[k].b # NullM
    THEN [layers[k] EXCEPT !.W = w[k].W, !.b = w[k].b]
    ELSE layers[k])

\* the architecture-format branch (script.js 875-912), for an array
\* o.architecture, as far as it runs
importArchitecture(g, o) ==
  LET a  == o.architecture
      i  == FirstOf(a, "input")
      t  == FirstOf(a, "output")
      g1 == buildNetwork([g EXCEPT
                !.arch = a,
                !.inputSize  = IF i # 0 THEN a[i].neurons ELSE g.inputSize,
                !.outputSize = IF t # 0 THEN a[t].neurons ELSE g.outputSize])
      g2 == IF WeightsMatch(o, g1.net)
            THEN [g1 EXCEPT !.net = ApplyWeights(g1.net, o.weights, FirstNull(o))]
            ELSE g1
  IN  renderTestInputs(g2)

\* whether that branch is left by the TypeError of the loop
importArchitectureThrows(g, o) ==
  /\ o.nullWeights # {}
  /\ WeightsMatch(o, importArchitecture(g, o).net)

\* The files offered to #importJSON: the file downloadWeights writes for the
\* current network and the text of #jsonArea for the current state, as they
\* are or after an edit by hand, and files that are not of either format.
ExtraRecord == [in |-> 1, out |-> 1, activation |-> "linear", useBias |-> TRUE,
                W |-> << <<Scale>> >>, b |-> << <<0>> >>]
PayloadKinds == {"weights", "combined", "other", "malformed", "emptyLayers",
                 "weightsOnly", "badChain", "unknownAct", "extraWeights",
                 "nullWeights"}
Payload(kind) ==
  CASE kind = "weights"  -> downloadWeights(net)
    [] kind = "combined" -> updateJSON(arch, net)
    [] kind = "malformed" -> [NoPayload EXCEPT !.parses = FALSE]
    [] kind = "emptyLayers" -> [NoPayload EXCEPT !.hasLayers = TRUE]
    [] kind = "weightsOnly" ->
         [NoPayload EXCEPT !.hasWeights = TRUE, !.weights = LayerRecords(net)]
    \* the last record's `in` raised by one: it no longer equals the previous
    \* record's `out`, nor the row count of its own W
    [] kind = "badChain" ->
         downloadWeights(Tab(Len(net), LAMBDA k :
           IF k = Len(net) THEN [net[k] EXCEPT !.in = net[k].in + 1] ELSE net[k]))
    \* the first record's activation replaced by a name Activations lacks
    [] kind = "unknownAct" ->
         downloadWeights(Tab(Len(net), LAMBDA k :
           IF k = 1 THEN [net[k] EXCEPT !.activation = "swish"] ELSE net[k]))
    \* one record more than the network has layers
    [] kind = "extraWeights" ->
         [updateJSON(arch, net) EXCEPT
            !.weights = Append(LayerRecords(net), ExtraRecord)]
    \* a two-card architecture with weights: [null]
    [] kind = "nullWeights" ->
         [NoPayload EXCEPT
            !.hasArchitecture = TRUE,
            !.architecture = <<Card("input", 3, "null", "null"),
                               Card("output", 1, "tanh", "true")>>,
            !.hasWeights = TRUE, !.weights = <<ExtraRecord>>,
            !.nullWeights = {1}]
    [] OTHER -> NoPayload

ImportOk == {"Import riuscito (formato pesi).", "Import riuscito (architettura)."}

\* fr.onload of the #importJSON change handler (script.js 826-924): the
\* globals it leaves and the alert it shows
importJSON(g, o) ==
  IF ~o.parses
  THEN [g |-> g, alert |-> "JSON non valido: Unexpected token"]
  ELSE IF o.hasLayers
  THEN IF Len(o.layers) = 0
       THEN [g |-> g, alert |-> "JSON non valido: layers vuoto"]
       ELSE [g |-> importWeights(g, o), alert |-> "Import riuscito (formato pesi)."]
  ELSE IF o.hasArchitecture \/ o.hasWeights
  THEN IF ~o.hasArchitecture
       THEN [g |-> g, alert |-> "JSON non valido: manca architecture"]
       ELSE [g |-> importArchitecture(g, o),
             alert |-> IF importArchitectureThrows(g, o)
                       THEN "JSON non valido: Cannot read properties of null"
                       ELSE "Import riuscito (architettura)."]
  ELSE [g |-> g, alert |-> "JSON non valido: Formato non riconosciuto"]

ImportJSON(kind) ==
  /\ Step
  /\ kind \in PayloadKinds
  /\ \E r \in {importJSON(Globals, Payload(kind))} :
       /\ SetGlobals(r.g)
       /\ last' = Log("importJSON", kind, r.alert, <<>>, FALSE)
  /\ UNCHANGED Controls

(***************************************************************************)
(* The page after DOMContentLoaded (script.js 1199-1213): the default      *)
(* network of three cards.  The markup that sets the buttons' initial      *)
(* state is not part of the script: Train must be enabled for the page to  *)
(* be usable, and Stop is taken either way.                                *)
(***************************************************************************)
InitGlobals ==
  buildNetwork(addLayer(addLayer(addLayer(
    [arch |-> <<>>, inputSize |-> 2, outputSize |-> 1,
     dataset |-> [X |-> <<>>, y |-> <<>>], net |-> <<>>,
     lastNodeColors |-> NullM, testInputs |-> 0],
    "input"), "hidden"), "output"))

InitPage ==
  /\ arch = InitGlobals.arch
  /\ inputSize = InitGlobals.inputSize
  /\ outputSize = InitGlobals.outputSize
  /\ dataset = InitGlobals.dataset
  /\ net = InitGlobals.net
  /\ lastNodeColors = InitGlobals.lastNodeColors
  /\ testInputs = InitGlobals.testInputs
  /\ stopFlag = FALSE
  /\ chart = EmptyChart
  /\ btnTrainDisabled = FALSE
  /\ btnStopDisabled \in BOOLEAN
  /\ loops = <<>>
  /\ last = [handler |-> "DOMContentLoaded", arg |-> "", alert |-> "", calls |-> <<>>,
             threw |-> FALSE, run |-> [done |-> 0, epochs |-> 0],
             pre |-> [stopFlag |-> FALSE, fresh |-> TRUE, learned |-> FALSE,
                      running |-> 0]]
  /\ steps = 0

\* No engine function is applied outside the page's handlers.
NoCall == [fn |-> "none", done |-> FALSE]

Init == InitPage /\ call = NoCall

Next ==
  \/ \E type \in PaletteTypes : AddLayer(type)
  \/ \E k \in 1..MaxArch : RemoveLayer(k)
  \/ \E k \in 1..MaxArch, value \in NeuronChoices \cup InputChoices :
        EditField(k, "neurons", value)
  \/ \E k \in 1..MaxArch, value \in ActChoices : EditField(k, "activation", value)
  \/ \E k \in 1..MaxArch, value \in {"true", "false"} : EditField(k, "bias", value)
  \/ \E from \in 1..MaxArch, to \in 1..MaxArch : CardDrop(from, to)
  \/ Clear
  \/ \E name \in {"xor", "linsep"} : LoadPreset(name)
  \/ QuickStart
  \/ \E data \in CsvFiles : CsvLoaded(data)
  \/ \E epochs \in 0..MaxEpochs, batch \in BatchChoices, lr \in LrChoices :
        BtnTrain(epochs, batch, lr)
  \/ \E i \in 1..2 : Resume(i)
  \/ BtnStop
  \/ \E v \in PredictValues : BtnPredict(v)
  \/ \E kind \in PayloadKinds : ImportJSON(kind)

Spec == Init /\ [][Next]_vars

(***************************************************************************)
(* The engine functions on their own: Network.forward, mse and             *)
(* accuracyBinary, each applied once to arguments drawn from small sets.   *)
(* The page stays as loaded.                                               *)
(***************************************************************************)
MaxWidth == 2         \* widths of the layers given to forward
MaxBatch == 2         \* rows of the batches given to forward and mse
MaxRows == 3          \* rows of the matrices given to accuracyBinary

Seqs(V, n) == {Tab(n, LAMBDA j : f[j]) : f \in [1..n -> V]}
Mats(V, r, c) ==
  {Tab(r, LAMBDA i : Tab(c, LAMBDA j : f[<<i, j>>])) : f \in [(1..r) \X (1..c) -> V]}

\* Layers as the constructor makes them, chained or not.
Chains ==
  {<<DenseLayer(i, o, a, TRUE)>> :
      i \in 1..MaxWidth, o \in 1..MaxWidth, a \in {"tanh", "linear"}}
  \cup
  {<<DenseLayer(i, o, a, TRUE), DenseLayer(i2, o2, "sigmoid", FALSE)>> :
      i \in 1..MaxWidth, o \in 1..MaxWidth, i2 \in 1..MaxWidth, o2 \in 1..MaxWidth,
      a \in {"tanh", "linear"}}
Batches == UNION {Mats({0, Scale}, r, w) : r \in 1..MaxBatch, w \in 1..(MaxWidth + 1)}

ForwardCalls ==
  {[fn |-> "forward", done |-> FALSE, layers |-> layers, X |-> X,
    out |-> [threw |-> FALSE, layers |-> layers, out |-> <<>>]] :
      layers \in Chains, X \in Batches}

MseCalls ==
  UNION {{[fn |-> "mse", done |-> FALSE, pred |-> pred, target |-> target,
           out |-> [threw |-> FALSE, loss |-> 0, grad |-> <<>>]] :
             pred \in Mats({-(Scale \div 2), 0, Scale}, r, c),
             target \in Mats({0, Scale}, r, c)} :
         r \in 1..MaxBatch, c \in 1..MaxBatch}

\* Prediction rows: one output, or two of which only the first counts.
PredRows == {<<p>> : p \in {400, 500, 510, 900}} \cup {<<400, 900>>, <<900, 0>>}
TargetRows == {<<0>>, <<Scale>>, <<0, Scale>>}
AccuracyCalls ==
  UNION {{[fn |-> "accuracyBinary", done |-> FALSE, pred |-> pred, y |-> y,
           out |-> [threw |-> FALSE, acc |-> 0]] :
             pred \in Seqs(PredRows, r), y \in Seqs(TargetRows, r)} :
         r \in 1..MaxRows}

\* A constructor-made layer after forward(X), the gradient of its output
\* and a learning rate.
BackwardCalls ==
  UNION {{[fn |-> "backward", done |-> FALSE,
           layer |-> DenseLayer_forward(DenseLayer(i, o, a, bias), X).layer,
           dA |-> dA, lr |-> Scale \div 2,
           out |-> [threw |-> FALSE, dX |-> <<>>]] :
             X \in Mats({0, Scale}, r, i),
             dA \in Mats({-Scale, Scale \div 2}, r, o),
             a \in {"sigmoid", "linear"}, bias \in BOOLEAN} :
         i \in 1..MaxWidth, o \in 1..MaxWidth, r \in 1..MaxBatch}

\* A forward of X and then a backward of dA through one or two matching
\* layers, as a batch step makes them.
NetCalls ==
  UNION {{[fn |-> "network", done |-> FALSE, layers |-> layers, X |-> X,
           dA |-> dA, lr |-> Scale \div 2,
           out |-> [f |-> <<>>, g |-> <<>>]] :
             layers \in {<<DenseLayer(i, o, "tanh", TRUE)>>}
                        \cup {<<DenseLayer(i, h, "tanh", TRUE),
                                DenseLayer(h, o, "sigmoid", TRUE)>> : h \in 1..MaxWidth},
             X \in Mats({0, Scale}, r, i),
             dA \in Mats({-Scale, Scale \div 2}, r, o)} :
         i \in 1..MaxWidth, o \in 1..MaxWidth, r \in 1..MaxBatch}

\* Datasets of n distinct rows, a batch size and the seed of the rng.
MaxBatchSize == 3     \* largest batch size given to getBatches
BatchCalls ==
  {[fn |-> "getBatches", done |-> FALSE,
    X |-> Tab(n, LAMBDA i : <<i * Scale>>), y |-> Tab(n, LAMBDA i : <<-i>>),
    batch |-> B, seed |-> seed, out |-> <<>>] :
      n \in 0..(MaxRows + 1), B \in 1..MaxBatchSize, seed \in {1, 7, 42, 123}}

\* Random sources that return 0 now and then, but not for ever.
MaxCycle == 3         \* length of a random source's cycle
RandSources ==
  UNION {{src \in Seqs({0, 250000, 999999}, n) : \E k \in 1..n : src[k] # 0} :
         n \in 1..MaxCycle}
RandnCalls ==
  {[fn |-> "randn", done |-> FALSE, r |-> r, c |-> c, src |-> src, out |-> <<>>] :
      r \in 1..MaxWidth, c \in 1..MaxWidth, src \in RandSources}

\* Pages whose #jsonArea text is imported back: the default cards with the
\* bias switch of the hidden and of the output card on or off, the XOR preset
\* loaded, before training and after one epoch of training.
RoundTripPages ==
  { LET g1 == IF b2 = "false" THEN fieldInput(InitGlobals, 2, "bias", "false")
              ELSE InitGlobals
        g2 == IF b3 = "false" THEN fieldInput(g1, 3, "bias", "false") ELSE g1
        g3 == loadPreset(g2, "xor")
        fr == [ep |-> 1, epochs |-> 1, batch |-> 3, lr |-> Scale \div 2,
               X |-> g3.dataset.X, y |-> g3.dataset.y, probe |-> g3.dataset.X[1],
               rand |-> rngSeed(42)]
    IN  IF n = 0 THEN g3
        ELSE With(Epoch(g3.net, g3.lastNodeColors, EmptyChart, fr, 1), LAMBDA e :
               [g3 EXCEPT !.net = e.layers, !.lastNodeColors = e.colors]) :
      b2 \in {"true", "false"}, b3 \in {"true", "false"}, n \in 0..1 }
RoundTripCalls ==
  {[fn |-> "roundTrip", done |-> FALSE, g |-> g, out |-> <<>>] : g \in RoundTripPages}

Page == <<arch, inputSize, outputSize, dataset, net, stopFlag, lastNodeColors,
          chart, btnTrainDisabled, btnStopDisabled, testInputs, loops, last,
          steps>>

FnInit ==
  /\ InitPage
  /\ \/ call \in ForwardCalls
     \/ call \in MseCalls
     \/ call \in AccuracyCalls
     \/ call \in RandnCalls
     \/ call \in BackwardCalls
     \/ call \in NetCalls
     \/ call \in BatchCalls
     \/ call \in RoundTripCalls

EvalForward ==
  /\ call.fn = "forward"
  /\ ~call.done
  /\ call' = [call EXCEPT !.done = TRUE,
                          !.out = Network_forward(call.layers, call.X)]
  /\ UNCHANGED Page

EvalMse ==
  /\ call.fn = "mse"
  /\ ~call.done
  /\ call' = [call EXCEPT !.done = TRUE, !.out = mse(call.pred, call.target)]
  /\ UNCHANGED Page

EvalAccuracy ==
  /\ call.fn = "accuracyBinary"
  /\ ~call.done
  /\ call' = [call EXCEPT !.done = TRUE, !.out = accuracyBinary(call.pred, call.y)]
  /\ UNCHANGED Page

EvalRandn ==
  /\ call.fn = "randn"
  /\ ~call.done
  /\ call' = [call EXCEPT !.done = TRUE,
                          !.out = randnDraws(call.r * call.c, call.src, 1, <<>>)]
  /\ UNCHANGED Page

EvalBackward ==
  /\ call.fn = "backward"
  /\ ~call.done
  /\ call' = [call EXCEPT !.done = TRUE,
                          !.out = DenseLayer_backward(call.layer, call.dA, call.lr)]
  /\ UNCHANGED Page

EvalNetwork ==
  /\ call.fn = "network"
  /\ ~call.done
  /\ \E f \in {Network_forward(call.layers, call.X)} :
       call' = [call EXCEPT !.done = TRUE,
                            !.out = [f |-> f,
                                     g |-> Network_backward(f.layers, call.dA, call.lr)]]
  /\ UNCHANGED Page

EvalGetBatches ==
  /\ call.fn = "getBatches"
  /\ ~call.done
  /\ call' = [call EXCEPT
                !.done = TRUE,
                !.out = getBatches(call.X, call.y, call.batch, rngSeed(call.seed)).batches]
  /\ UNCHANGED Page

\* the text updateJSON wrote for the page, chosen in #importJSON
EvalRoundTrip ==
  /\ call.fn = "roundTrip"
  /\ ~call.done
  /\ call' = [call EXCEPT
                !.done = TRUE,
                !.out = importJSON(call.g, updateJSON(call.g.arch, call.g.net))]
  /\ UNCHANGED Page

FnNext ==
  \/ EvalForward
  \/ EvalMse
  \/ EvalAccuracy
  \/ EvalRandn
  \/ EvalBackward
  \/ EvalNetwork
  \/ EvalGetBatches
  \/ EvalRoundTrip

FnSpec == FnInit /\ [][FnNext]_vars

(***************************************************************************)
(* Properties.                                                             *)
(***************************************************************************)
BuildHandlers == {"addLayer", "remove", "fieldInput", "cardDrop", "btnClear",
                  "btnLoadPreset", "handleCSVFile", "btnQuickStart"}
TrainHandlers == {"btnTrain", "trainLoop"}

\* C1: in every reachable state each layer's output width is the next
\* layer's input width, and the first layer's input width is inputSize.
C1_LayersChain ==
  /\ \A k \in 1..(Len(net) - 1) : net[k].out = net[k + 1].in
  /\ Len(net) > 0 => net[1].in = inputSize

\* C2: in every reachable state with a non-empty dataset every input vector
\* has inputSize entries and every target vector has outputSize entries.
C2_DatasetFitsNetwork ==
  Len(dataset.X) > 0 =>
    /\ \A i \in 1..Len(dataset.X) : Len(dataset.X[i]) = inputSize
    /\ \A i \in 1..Len(dataset.y) : Len(dataset.y[i]) = outputSize

\* C3: after every handler that builds or rebuilds the network (add, remove,
\* reorder, field edit, clear, preset, CSV, quick start) every layer holds the
\* initial weights, a zero bias row if its bias is enabled, and no cache.
C3_RebuildIsFresh == last.handler \in BuildHandlers => NetFresh(net)
\* a rebuild of a network whose weights training had changed
C3_Witness ==
  /\ last.handler \in BuildHandlers
  /\ last.pre.learned
  /\ Len(net) > 0

\* The calls of one whole epoch over X in batches of B: a forward and a
\* backward per batch, the batches covering X, then the evaluation of X and
\* the snapshot.
WholeEpoch(calls, X, B) ==
  LET nb == (Len(X) + B - 1) \div B
  IN  /\ Len(calls) = 2 * nb + 2
      /\ \A k \in 1..nb :
           /\ calls[2 * k - 1] = Call("forward", "batch", calls[2 * k].X)
           /\ calls[2 * k].op = "backward"
           /\ Len(calls[2 * k].X) = (IF k < nb THEN B ELSE Len(X) - (nb - 1) * B)
      /\ calls[2 * nb + 1] = Call("forward", "eval", X)
      /\ calls[2 * nb + 2].op = "forward"
      /\ calls[2 * nb + 2].who = "probe"

C4_Step ==
  /\ (last'.handler = "trainLoop" /\ stopFlag) =>
       /\ last'.arg = "break"
       /\ last'.calls = <<>>
       /\ net' = net
       /\ chart' = chart
       /\ Len(loops') = Len(loops) - 1
  /\ (last'.handler \in TrainHandlers /\ last'.arg = "epoch") =>
       \E i \in 1..Len(loops') :
         WholeEpoch(last'.calls, loops'[i].X, loops'[i].batch)
\* C4: a run resumed with the stop flag set runs no batch and ends; an epoch
\* that ran to its yield made every batch's forward and backward and the
\* evaluation of the whole dataset.
C4_StopAtEpochBoundary == [][C4_Step]_vars
\* a run stopped at its yield with epochs still to run
C4_Witness ==
  /\ last.handler = "trainLoop"
  /\ last.arg = "break"
  /\ last.run.done < last.run.epochs

\* C5: at most one activation of trainLoop is in flight.
C5_OneRun == Len(loops) <= 1
\* a handler ran while a run was suspended, and Train is disabled
C5_Witness ==
  /\ Len(loops) = 1
  /\ last.pre.running = 1
  /\ btnTrainDisabled

\* C6: every backward of a handler is immediately preceded by the forward of
\* the same batch; a prediction's forward is made by btnPredict only, and
\* btnPredict makes no backward.
C6_ForwardBeforeBackward ==
  \A k \in 1..Len(last.calls) :
    /\ last.calls[k].op = "backward" =>
         k > 1 /\ last.calls[k - 1] = Call("forward", "batch", last.calls[k].X)
    /\ last.calls[k].who = "predict" => last.handler = "btnPredict"
    /\ last.handler = "btnPredict" => last.calls[k].op = "forward"
\* an epoch of two batches
C6_Witness ==
  /\ last.handler \in TrainHandlers
  /\ \E k \in 4..Len(last.calls) : last.calls[k].op = "backward"

C7_Step ==
  (last'.handler = "btnTrain" /\ Len(dataset.X) = 0) =>
    /\ last'.alert # ""
    /\ last'.calls = <<>>
    /\ net' = net
    /\ chart' = chart
    /\ stopFlag' = stopFlag
    /\ loops = <<>>
    /\ loops' = <<>>
C8_Step ==
  /\ (last'.handler = "btnTrain" /\ Len(dataset.X) > 0) => ~stopFlag'
  /\ (stopFlag' /\ ~stopFlag) => last'.handler = "btnStop"
\* C8: a start with a dataset leaves the stop flag clear, and only a click on
\* Stop sets it.
C8_StartClearsStopFlag == [][C8_Step]_vars
\* a run started, and its first epoch run, after Stop had been clicked
C8_Witness ==
  /\ last.handler = "btnTrain"
  /\ last.arg = "epoch"
  /\ last.pre.stopFlag
  /\ ~stopFlag

Upto(k) == Tab(k, LAMBDA i : i)
SameLayers(a, b) ==
  /\ Len(a) = Len(b)
  /\ \A k \in 1..Len(a) :
       /\ a[k].in = b[k].in
       /\ a[k].out = b[k].out
       /\ a[k].activation = b[k].activation
       /\ a[k].useBias = b[k].useBias
       /\ a[k].W = b[k].W
       /\ a[k].b = b[k].b
C10_Step ==
  (last'.handler = "importJSON" /\ last'.arg = "weights") => SameLayers(net, net')
\* C10: importing the file downloadWeights writes for the current network
\* leaves a network of the same layers: in, out, activation, useBias, W, b.
C10_WeightsRoundTrip == [][C10_Step]_vars

\* The records of a weights file do not chain, or a W does not have the rows
\* its record declares.
InconsistentRecords(recs) ==
  \E k \in 1..Len(recs) :
    \/ k > 1 /\ recs[k].in # recs[k - 1].out
    \/ recs[k].W # NullM /\ Len(recs[k].W) # recs[k].in

C11_Step ==
  \A kind \in PayloadKinds :
    ( /\ last'.handler = "importJSON"
      /\ last'.arg = kind
      /\ Payload(kind).hasLayers
      /\ InconsistentRecords(Payload(kind).layers) )
    => (last'.alert \notin ImportOk /\ net' = net)
\* C11: importing a weights file whose records do not chain, or whose W does
\* not fit its record, shows an error alert and leaves net as it was.
C11_InconsistentChainRejected == [][C11_Step]_vars

C12_Step ==
  (last'.handler = "importJSON" /\ last'.alert \notin ImportOk)
  => /\ arch' = arch
     /\ inputSize' = inputSize
     /\ outputSize' = outputSize
     /\ SameLayers(net, net')
\* C12: an import that ends in the error alert leaves arch, inputSize,
\* outputSize and every layer of net (shape, activation, W, b) as before.
C12_FailedImportUntouched == [][C12_Step]_vars

C13_Step ==
  \A kind \in PayloadKinds :
    ( /\ last'.handler = "importJSON"
      /\ last'.arg = kind
      /\ Payload(kind).parses
      /\ ~Payload(kind).hasLayers
      /\ Payload(kind).hasArchitecture
      /\ Payload(kind).hasWeights
      /\ Len(Payload(kind).weights) # Len(net') )
    => (NetFresh(net') /\ last'.alert \in ImportOk)
C14_KnownActivations ==
  \A k \in 1..Len(net) : net[k].activation \in ActivationNames

C15_Step ==
  (last'.handler = "btnPredict" /\ testInputs' # inputSize)
  => /\ last'.alert = "Dimensione input non coerente con la rete."
     /\ last'.calls = <<>>
     /\ net' = net
     /\ lastNodeColors' = lastNodeColors
\* C15: a prediction whose vector of test-field values is not inputSize long
\* shows the alert, calls no forward, and leaves every layer's caches and
\* the node-colour snapshot as they were.
C15_MismatchedInputRejected == [][C15_Step]_vars
\* a prediction was refused on a page whose network has layers
C15_Witness ==
  /\ last.handler = "btnPredict"
  /\ last.alert = "Dimensione input non coerente con la rete."
  /\ testInputs # inputSize
  /\ Len(net) > 0

\* Adjacent widths match and every W has the shape its layer declares.
ChainMatches(layers) ==
  /\ \A k \in 1..(Len(layers) - 1) : layers[k].out = layers[k + 1].in
  /\ \A k \in 1..Len(layers) :
       /\ Len(layers[k].W) = layers[k].in
       /\ \A i \in 1..Len(layers[k].W) : Len(layers[k].W[i]) = layers[k].out
\* Every row of the batch has the first layer's input width.
BatchFits(layers, X) == \A i \in 1..Len(X) : Len(X[i]) = layers[1].in

\* C16: a forward call on layers whose adjacent widths do not match, or on
\* a batch whose rows are not as wide as the first layer's input, ends in
\* an error instead of returning an output.
C16_MismatchDetected ==
  ( /\ call.fn = "forward"
    /\ call.done
    /\ (~ChainMatches(call.layers) \/ ~BatchFits(call.layers, call.X)) )
  => call.out.threw

\* C17: on a chain of one or more matching layers, a batch of r >= 1 rows of
\* the first layer's input width comes back from Network.forward as r rows
\* of the last layer's output width.
C17_ForwardShape ==
  ( /\ call.fn = "forward"
    /\ call.done
    /\ ChainMatches(call.layers)
    /\ BatchFits(call.layers, call.X) )
  => /\ ~call.out.threw
     /\ Len(call.out.out) = Len(call.X)
     /\ \A i \in 1..Len(call.out.out) :
          Len(call.out.out[i]) = call.layers[Len(call.layers)].out
\* two rows went through two layers whose three widths are not all equal
C17_Witness ==
  /\ call.fn = "forward"
  /\ call.done
  /\ Len(call.layers) = 2
  /\ ChainMatches(call.layers)
  /\ BatchFits(call.layers, call.X)
  /\ Len(call.X) = 2
  /\ call.layers[1].in # call.layers[2].out
  /\ call.layers[1].out # call.layers[2].out
  /\ Len(call.out.out) = 2

\* C18: accuracyBinary is the number of rows whose column 0 of pred, 1 when
\* >= 0.5 and 0 otherwise, equals column 0 of y, divided by the row count.
C18_AccuracyBinary ==
  (call.fn = "accuracyBinary" /\ call.done)
  => /\ ~call.out.threw
     /\ call.out.acc =
          Quot(Cardinality({i \in 1..Len(call.pred) :
                 (IF call.pred[i][1] >= Scale \div 2 THEN Scale ELSE 0) = call.y[i][1]})
               * Scale, Len(call.pred))
\* a row predicted exactly 0.5 with target 1 and a row of two columns were
\* both counted as right
C18_Witness ==
  /\ call.fn = "accuracyBinary"
  /\ call.done
  /\ \E i \in 1..Len(call.pred) : call.pred[i] = <<Scale \div 2>> /\ call.y[i][1] = Scale
  /\ \E i \in 1..Len(call.pred) : Len(call.pred[i]) = 2 /\ Len(call.y[i]) = 2
  /\ call.out.acc = Scale

RECURSIVE SeqSum(_)
SeqSum(q) == IF q = <<>> THEN 0 ELSE Head(q) + SeqSum(Tail(q))
\* the squared errors of the cells, row after row
SquaredErrors(pred, target) ==
  LET RECURSIVE Rows(_)
      Rows(i) ==
        IF i > Len(pred) THEN <<>>
        ELSE Tab(Len(pred[i]), LAMBDA j :
               Quot((pred[i][j] - target[i][j]) * (pred[i][j] - target[i][j]), Scale))
             \o Rows(i + 1)
  IN  Rows(1)

\* C19: for r x c matrices mse gives loss = (sum of squared errors) / r and
\* grad[i][j] = 2 * (pred[i][j] - target[i][j]) / c.
C19_MseFormula ==
  (call.fn = "mse" /\ call.done)
  => /\ ~call.out.threw
     /\ call.out.loss = Quot(SeqSum(SquaredErrors(call.pred, call.target)),
                             Len(call.pred))
     /\ Len(call.out.grad) = Len(call.pred)
     /\ \A i \in 1..Len(call.pred) :
          /\ Len(call.out.grad[i]) = Len(call.pred[i])
          /\ \A j \in 1..Len(call.pred[i]) :
               call.out.grad[i][j] =
                 Quot(2 * (call.pred[i][j] - call.target[i][j]), Len(call.pred[1]))
\* two rows of one column with a non-zero error: r and c differ
C19_Witness ==
  /\ call.fn = "mse"
  /\ call.done
  /\ Len(call.pred) = 2
  /\ Len(call.pred[1]) = 1
  /\ call.out.grad[1][1] # 0
  /\ call.out.loss # 0

\* some row has not the first row's column count
Ragged(data) == \E i \in 1..Len(data) : Len(data[i]) # Len(data[1])

C20_Step ==
  \A data \in CsvFiles :
    ( /\ Ragged(data)
      /\ last'.handler = "handleCSVFile"
      /\ dataset' = handleCSVFile(Globals, data).dataset )
    => /\ last'.alert # ""
       /\ dataset' = dataset
       /\ inputSize' = inputSize
       /\ arch' = arch
       /\ net' = net
\* C20: loading a CSV file with a row whose column count is not the first
\* row's shows an error and leaves dataset, inputSize, arch and net as they
\* were.
C20_RaggedCsvRejected == [][C20_Step]_vars

\* the positions of the architecture's entries that are not input cards
NonInputAt(a) ==
  SelectSeq(Tab(Len(a), LAMBDA k : k), LAMBDA k : a[k].type # "input")

\* C21: after a build there is one layer per non-input entry, in order, as
\* wide as the entry's neurons and fed the width of the entry before it
\* (inputSize for the first); input entries give no layer; outputSize is the
\* last entry's neurons, or inputSize when there is no entry.
C21_OneLayerPerEntry ==
  last.handler \in BuildHandlers =>
    /\ Len(net) = Len(NonInputAt(arch))
    /\ \A m \in 1..Len(net) :
         /\ net[m].out = arch[NonInputAt(arch)[m]].neurons
         /\ net[m].in = (IF NonInputAt(arch)[m] = 1 THEN inputSize
                         ELSE arch[NonInputAt(arch)[m] - 1].neurons)
    /\ outputSize = (IF Len(arch) = 0 THEN inputSize ELSE arch[Len(arch)].neurons)
\* a build over an architecture with an input card after a layer's card
C21_Witness ==
  /\ last.handler \in BuildHandlers
  /\ Len(net) >= 2
  /\ \E k \in 2..Len(arch) : arch[k].type = "input" /\ arch[k - 1].type # "input"
  /\ outputSize # inputSize

\* C22: whatever the random source returns, each of the r * c entries of
\* randn is computed from a u and a v that are not 0.
C22_NoZeroToLog ==
  (call.fn = "randn" /\ call.done)
  => /\ Len(call.out) = call.r * call.c
     /\ \A k \in 1..Len(call.out) : call.out[k].u # 0 /\ call.out[k].v # 0
\* a source whose first draw is 0 and that returns 0 again later filled a
\* matrix of several entries
C22_Witness ==
  /\ call.fn = "randn"
  /\ call.done
  /\ call.src[1] = 0
  /\ Len(call.src) = 3
  /\ call.src[3] = 0
  /\ Len(call.out) >= 2

\* dZ = dA (elementwise) df(cached output), for layer L
GradZ(L, dA) ==
  Mat(Len(L.A), Len(L.A[1]), LAMBDA i, j : Mul(dA[i][j], ActDf(L.activation, L.A[i][j])))

\* C23: backward returns dX = dZ x transpose(W) with W as it was before the
\* call, and leaves W[i][j] - lr * dW[i][j] / r and, with bias enabled,
\* b[0][j] - lr * dB[0][j] / r (b untouched otherwise), where dW =
\* transpose(X) x dZ, dB the column sums of dZ and r the rows of the batch
\* last passed to forward.
C23_BackwardFormulas ==
  (call.fn = "backward" /\ call.done)
  => LET L  == call.layer
         r  == Len(L.X)
         dZ == GradZ(L, call.dA)
         dW == dot(transpose(L.X), dZ)
     IN  /\ ~call.out.threw
         /\ call.out.dX = dot(dZ, transpose(L.W))
         /\ \A i \in 1..L.in : \A j \in 1..L.out :
              call.out.layer.W[i][j] =
                L.W[i][j] - Quot(Quot(call.lr * dW[i][j], Scale), r)
         /\ IF L.useBias
            THEN \A j \in 1..L.out :
                   call.out.layer.b[1][j] =
                     L.b[1][j] - Quot(Quot(call.lr * SeqSum(Tab(r, LAMBDA k : dZ[k][j])),
                                           Scale), r)
            ELSE call.out.layer.b = L.b
\* a batch of two rows through a 2 -> 1 layer with bias whose weights moved
C23_Witness ==
  /\ call.fn = "backward"
  /\ call.done
  /\ Len(call.layer.X) = 2
  /\ call.layer.in = 2
  /\ call.layer.out = 1
  /\ call.layer.useBias
  /\ call.out.layer.W # call.layer.W
  /\ call.out.layer.b # call.layer.b

\* C24: Network.forward is layer 1's forward of X followed by layer 2's
\* forward of its output, each once; Network.backward is the last layer's
\* backward of dA followed by the first layer's backward of the dX that
\* returned, each once and with the same lr; backward yields no value.
C24_LayersInOrder ==
  (call.fn = "network" /\ call.done)
  => LET n  == Len(call.layers)
         f1 == DenseLayer_forward(call.layers[1], call.X)
         f2 == DenseLayer_forward(call.layers[n], f1.out)
         F  == IF n = 1 THEN <<f1.layer>> ELSE <<f1.layer, f2.layer>>
         gn == DenseLayer_backward(F[n], call.dA, call.lr)
         g1 == DenseLayer_backward(F[1], gn.dX, call.lr)
     IN  /\ ~call.out.f.threw /\ ~call.out.g.threw
         /\ call.out.f.layers = F
         /\ call.out.f.out = (IF n = 1 THEN f1.out ELSE f2.out)
         /\ call.out.g.layers = (IF n = 1 THEN <<gn.layer>> ELSE <<g1.layer, gn.layer>>)
         /\ DOMAIN call.out.g = {"threw", "layers"}
\* two rows went forward and back through two layers, and both layers'
\* weights moved
C24_Witness ==
  /\ call.fn = "network"
  /\ call.done
  /\ Len(call.layers) = 2
  /\ Len(call.X) = 2
  /\ call.out.g.layers[1].W # call.layers[1].W
  /\ call.out.g.layers[2].W # call.layers[2].W

\* the rows of all batches, batch after batch
RECURSIVE Flatten(_)
Flatten(q) == IF q = <<>> THEN <<>> ELSE Head(q) \o Flatten(Tail(q))

\* C25: for n rows and batch size B >= 1 getBatches gives ceil(n / B)
\* batches, all of B rows except a last one of 1..B rows; every dataset row
\* is in exactly one place of one batch, and the X row and the y row at the
\* same place of a batch come from the same dataset index.
C25_BatchesPartition ==
  (call.fn = "getBatches" /\ call.done)
  => LET n  == Len(call.X)
         B  == call.batch
         bs == call.out
         xs == Flatten(Tab(Len(bs), LAMBDA k : bs[k].X))
     IN  /\ Len(bs) = (n + B - 1) \div B
         /\ \A k \in 1..Len(bs) :
              /\ Len(bs[k].X) = Len(bs[k].y)
              /\ k < Len(bs) => Len(bs[k].X) = B
              /\ Len(bs[k].X) \in 1..B
              /\ \A m \in 1..Len(bs[k].X) :
                   \E i \in 1..n : bs[k].X[m] = call.X[i] /\ bs[k].y[m] = call.y[i]
         /\ Len(xs) = n
         /\ \A i \in 1..n : \E m \in 1..Len(xs) : xs[m] = call.X[i]
\* four rows in batches of three: a full batch and a short one, and the
\* first batch does not start with the first row
C25_Witness ==
  /\ call.fn = "getBatches"
  /\ call.done
  /\ Len(call.X) = 4
  /\ call.batch = 3
  /\ Len(call.out) = 2
  /\ Len(call.out[2].X) = 1
  /\ call.out[1].X[1] # call.X[1]

C26_Step ==
  ( /\ last'.handler \in TrainHandlers
    /\ last'.arg \in {"finished", "break", "threw"} )
  => /\ last'.run.done <= last'.run.epochs
     /\ ~btnTrainDisabled'
     /\ btnStopDisabled'
\* C26: when a started run ends, on its last epoch, on a stop or on an
\* exception, it has made at most its E epochs and it leaves the Train
\* button enabled and the Stop button disabled.
C26_RunEndsIdle == [][C26_Step]_vars

\* C27: the Train button is disabled exactly while a training run is in
\* flight; whenever no run is in flight, also after a start rejected for an
\* empty dataset, the Train button is enabled.
C27_TrainDisabledWhileRunning == btnTrainDisabled <=> Len(loops) > 0

C28_Step ==
  ( /\ last.handler \in BuildHandlers
    /\ last'.handler = "trainLoop"
    /\ last'.arg = "epoch" )
  => net' = net
\* C28: a run keeps training and evaluating the Network it started with: when
\* a topology edit or a dataset load replaces the network during the yield
\* between two epochs, the next epoch of the run leaves the new live network
\* as the edit built it.
C28_RunKeepsItsNetwork == [][C28_Step]_vars

\* layer L is the layer of architecture entry c: width, activation and bias
\* flag agree, W is in x out, and b is a 1 x out row exactly when the flag is on
LayerOfCard(L, c) ==
  /\ L.out = c.neurons
  /\ L.activation = (IF Falsy(c.activation) THEN "relu" ELSE c.activation)
  /\ L.useBias = (c.bias # "false")
  /\ Len(L.W) = L.in
  /\ \A r \in 1..Len(L.W) : Len(L.W[r]) = L.out
  /\ IF L.useBias THEN Len(L.b) = 1 /\ Len(L.b[1]) = L.out
     ELSE L.b = NullM

\* C29: in every reachable state the live network has one layer per non-input
\* entry of the architecture, in order, with the entry's width, activation
\* and bias flag, a weight matrix of shape in x out, and a 1 x out bias row
\* exactly when the bias flag is enabled.
C29_NetworkMirrorsArch ==
  /\ Len(net) = Len(NonInputAt(arch))
  /\ \A m \in 1..Len(net) : LayerOfCard(net[m], arch[NonInputAt(arch)[m]])

\* C30: importing the text updateJSON wrote for the current network gives a
\* network whose every layer holds the exported W and b, the layers whose
\* bias is disabled (exported with b = null) included.
C30_CombinedRoundTrip ==
  (call.fn = "roundTrip" /\ call.done)
  => /\ call.out.alert = "Import riuscito (architettura)."
     /\ Len(call.out.g.net) = Len(call.g.net)
     /\ \A k \in 1..Len(call.g.net) :
          /\ call.out.g.net[k].W = JsonMat(call.g.net[k].W)
          /\ call.out.g.net[k].b = JsonMat(call.g.net[k].b)

=============================================================================
